---- MODULE Spec2Model ----
(***************************************************************************)
(* Model of the declarative query subsystem of the `office` package:      *)
(* attribute descriptors (office/attribute.py), the Query compiler and    *)
(* the BulkActionContext (office/query.py).                               *)
(*                                                                         *)
(* The Remote Query Builder (O365.utils.Query) is a collaborator outside  *)
(* the package.  It is represented by the calls the package issues on it  *)
(* and by the three pieces of state those calls rebuild: the calls kept   *)
(* since the last clear_filters(), the calls kept since the last          *)
(* clear_order(), and the set of selected names.                          *)
(***************************************************************************)
EXTENDS Naturals, Integers, Sequences, FiniteSets, TLC

VARIABLES
    qselect,    \* Query._select: None or the tuple of attributes
    qwhere,     \* Query._where: None or the resolved expression element
    qorder,     \* Query._order: None or the raw order clause
    qlimit,     \* Query._limit: None or an integer
    selects,    \* builder: the set of selected remote names (_selects)
    filters,    \* builder: filter calls kept since the last clear_filters()
    orders,     \* builder: order calls kept since the last clear_order()
    kind,       \* which concrete Query class the query is
    result,     \* BulkActionContext.result
    committed,  \* BulkActionContext._committed
    inScope,    \* the caller is inside `with context:`
    enclosing,  \* `with context:` blocks of the same context open around the innermost one
    op,         \* the last operation the caller invoked, with its argument
    calls,      \* builder and container calls issued by the last operation, in order
    raised,     \* exception the last operation ended with, or "none"
    runs,       \* number of Query.execute() calls made by the last context operation
    applied,    \* results the action was called on by the last operation
    ret,        \* value returned by the last operation
    action,     \* BulkActionContext._action with _args
    prior,      \* whether the builder held filter/order/select state before the last operation
    message,    \* the names in the message of the TypeError the last operation's compile raised, or None
    arg         \* the expression the caller is about to pass to where()

vars == <<qselect, qwhere, qorder, qlimit, selects, filters, orders, kind,
          result, committed, inScope, enclosing, op, calls, raised, runs, applied, ret,
          action, prior, message, arg>>

queryVars == <<qselect, qwhere, qorder, qlimit, selects, filters, orders>>
bulkVars == <<result, committed, inScope, enclosing>>

(***************************************************************************)
(* Bounds                                                                  *)
(***************************************************************************)
MaxNodes == 2        \* clause nodes in an expression compiled on its own
MaxRepeatNodes == 1  \* clause nodes in expressions passed to repeated where() calls
MaxResults == 2      \* length of a fetched result list
MaxLimit == 2        \* largest limit passed to limit()
MaxNesting == 2      \* `with` blocks of one context open at the same time

(***************************************************************************)
(* Python values                                                           *)
(***************************************************************************)
None == [t |-> "None"]
Str(s) == [str |-> s]
Bool(b) == [bool |-> b]
IntVal(n) == [int |-> n]
List(xs) == [list |-> xs]
IsList(v) == DOMAIN v = {"list"}

SelfRef == [t |-> "Query"]

IsNone(v) == DOMAIN v = {"t"} /\ v.t = "None"

(***************************************************************************)
(* Attribute classes.  `kind` is the metaclass family: Plain is            *)
(* BaseAttributeMeta, Boolean is BooleanAttributeMeta, Enumerative is      *)
(* EnumerativeAttributeMeta, NonFilterable is NonFilterableMeta.           *)
(***************************************************************************)
AttributeClass(k, n) == [t |-> "attr", kind |-> k, name |-> n]

Subject == AttributeClass("Plain", "subject")
ReceivedOn == AttributeClass("Plain", "received_date_time")
IsRead == AttributeClass("Boolean", "is_read")
HasAttachments == AttributeClass("Boolean", "has_attachments")
IsDraft == AttributeClass("Boolean", "is_draft")
Importance == AttributeClass("Enumerative", "importance")
Body == AttributeClass("NonFilterable", "body")

IsAttr(v) == DOMAIN v = {"t", "kind", "name"}
IsFilterableClass(v) == IsAttr(v) /\ v.kind \in {"Plain", "Boolean", "Enumerative"}

\* the container protocol's casing function (snake_case to the remote camelCase)
Casing(n) ==
    CASE n = "subject" -> "subject"
      [] n = "received_date_time" -> "receivedDateTime"
      [] n = "is_read" -> "isRead"
      [] n = "has_attachments" -> "hasAttachments"
      [] n = "is_draft" -> "isDraft"
      [] n = "importance" -> "importance"
      [] n = "body" -> "body"

(***************************************************************************)
(* Expression elements                                                     *)
(***************************************************************************)
BooleanExpression(a, f, v) ==
    [t |-> "expr", attr |-> a, func |-> f, arg |-> v, negated |-> FALSE]

BooleanExpressionClause(l, o, r) ==
    [t |-> "clause", left |-> l, operator |-> o, right |-> r]

IsExpr(v) == DOMAIN v = {"t", "attr", "func", "arg", "negated"}
IsClause(v) == DOMAIN v = {"t", "left", "operator", "right"}

Operators == {"AND", "OR"}

\* utils.ChainOperator.<X>.value
OperatorValue(o) == IF o = "AND" THEN "and" ELSE "or"

\* variant: the orderings are mirrored instead of complemented
OppositeMirrored(f) ==
    CASE f = "equals" -> "unequal"
      [] f = "unequal" -> "equals"
      [] f = "greater" -> "less"
      [] f = "less_equal" -> "greater_equal"
      [] f = "less" -> "greater"
      [] f = "greater_equal" -> "less_equal"

Opposite(f) ==
    CASE f = "equals" -> "unequal"
      [] f = "unequal" -> "equals"
      [] f = "greater" -> "less_equal"
      [] f = "less_equal" -> "greater"
      [] f = "less" -> "greater_equal"
      [] f = "greater_equal" -> "less"

logical_opposites ==
    {"equals", "unequal", "greater", "less_equal", "less", "greater_equal"}

\* variant: a comparator without an opposite is left as it is
NegateNoToggle(e) ==
    IF e.func \in logical_opposites
    THEN [e EXCEPT !.func = Opposite(e.func)]
    ELSE e

\* BooleanExpression.negate / __invert__: the value the object holds afterwards
Negate(e) ==
    IF e.func \in logical_opposites
    THEN [e EXCEPT !.func = Opposite(e.func)]
    ELSE [e EXCEPT !.negated = ~e.negated]

\* outcome of a Python expression: a value, or the exception it raised
Value(v) == [raised |-> "none", value |-> v]
Raise(x) == [raised |-> x, value |-> None]

ComparisonOperators == {"eq", "ne", "lt", "le", "gt", "ge"}

ComparatorOf(c) ==
    CASE c = "eq" -> "equals"
      [] c = "ne" -> "unequal"
      [] c = "lt" -> "less"
      [] c = "le" -> "less_equal"
      [] c = "gt" -> "greater"
      [] c = "ge" -> "greater_equal"

\* `A <c> v` on an attribute class A.  BaseAttributeMeta defines the six
\* operators; NonFilterableMeta defines none of them, so Python falls back to
\* type's own: identity comparison for == and !=, TypeError for the orderings.
Compare(a, c, v) ==
    IF a.kind = "NonFilterable"
    THEN CASE c = "eq" -> Value(Bool(FALSE))
           [] c = "ne" -> Value(Bool(TRUE))
           [] OTHER -> Raise("TypeError")
    ELSE Value(BooleanExpression(a.name, ComparatorOf(c), v))

\* FilterableAttribute.contains
Contains(a, v) == BooleanExpression(a.name, "contains", v)

\* variant: the inverted attribute still compares against True
InvertAttributeTrue(a) == BooleanExpression(a.name, "equals", Bool(TRUE))

\* BooleanAttributeMeta.__invert__
InvertAttribute(a) == BooleanExpression(a.name, "equals", Bool(FALSE))

\* x._resolve() for any value x handed to where() or to `&`/`|`
Resolve(x) ==
    IF IsExpr(x) \/ IsClause(x) THEN Value(x)
    ELSE IF IsAttr(x) THEN
        CASE x.kind = "Boolean" -> Value(BooleanExpression(x.name, "equals", Bool(TRUE)))
          [] x.kind = "NonFilterable" -> Raise("AttributeError")
          [] OTHER -> Raise("ValueError")
    ELSE Raise("AttributeError")

(***************************************************************************)
(* Other values handed to the Query, and the names of types                *)
(***************************************************************************)
Tuple(xs) == [tuple |-> xs]

\* FilterableAttribute.__init__ via the classmethods asc() and desc()
Instance(cls, direction) ==
    [t |-> "instance", cls |-> cls, order_by |-> direction,
     ascending |-> (direction = "asc")]
Asc(cls) == Instance(cls, "asc")
Desc(cls) == Instance(cls, "desc")

IsStr(v) == DOMAIN v = {"str"}
IsInstance(v) == DOMAIN v = {"t", "cls", "order_by", "ascending"}

\* C.__name__ of the attribute classes of Message.Attributes
ClassName(a) ==
    CASE a.name = "subject" -> "Subject"
      [] a.name = "received_date_time" -> "ReceivedOn"
      [] a.name = "is_read" -> "IsRead"
      [] a.name = "has_attachments" -> "HasAttachments"
      [] a.name = "is_draft" -> "IsDraft"
      [] a.name = "importance" -> "Importance"
      [] a.name = "body" -> "Body"

\* type(self).__name__ of the Query
QueryClassName ==
    CASE kind = "message" -> "MessageQuery"
      [] kind = "folder" -> "MessageFolderQuery"
      [] kind = "contact_folder" -> "ContactFolderQuery"
      [] kind = "base_folder" -> "FolderQuery"
      [] kind = "event" -> "EventQuery"
      [] kind \in {"contact", "people_contact"} -> "ContactQuery"

\* type(v).__name__: for an attribute class the name of its metaclass, for an
\* attribute instance (A.asc(), A.desc()) the name of its class, for an
\* expression element or a context the name of its class, for the Query itself
\* the name of its concrete class, for a builtin value the name of its builtin
\* type, for the one-shot iterator of a fetch `generator`
TypeName(v) ==
    CASE IsAttr(v) ->
            (CASE v.kind = "Plain" -> "BaseAttributeMeta"
               [] v.kind = "Boolean" -> "BooleanAttributeMeta"
               [] v.kind = "Enumerative" -> "EnumerativeAttributeMeta"
               [] v.kind = "NonFilterable" -> "NonFilterableMeta")
      [] IsExpr(v) -> "BooleanExpression"
      [] IsClause(v) -> "BooleanExpressionClause"
      [] IsInstance(v) -> ClassName(v.cls)
      [] IsNone(v) -> "NoneType"
      [] IsStr(v) -> "str"
      [] DOMAIN v = {"bool"} -> "bool"
      [] DOMAIN v = {"int"} -> "int"
      [] IsList(v) -> "list"
      [] DOMAIN v = {"tuple"} -> "tuple"
      [] v = [t |-> "Query"] -> QueryClassName
      [] v = [t |-> "BulkActionContext"] -> "BulkActionContext"
      [] DOMAIN v = {"iterator"} -> "generator"

\* type(C).__name__ for the classes BooleanExpression and BooleanExpressionClause
ClassTypeName(c) == "type"

\* the three names the message of the TypeError of _build_side is formatted
\* with: the owner of the sides, the accepted types, the type of the side
SideErrorMessage(side) ==
    [ owner |-> ClassTypeName("BooleanExpressionClause"),
      accepted |-> <<ClassTypeName("BooleanExpression"),
                     ClassTypeName("BooleanExpressionClause")>>,
      offending |-> TypeName(side) ]

\* the names the message of the TypeError of _build_where_clause is formatted
\* with: type(BooleanExpression.__name__) is the class str, printed as such
WhereErrorMessage(w) ==
    [ owner |-> QueryClassName,
      accepted |-> <<"<class 'str'>", "<class 'str'>">>,
      offending |-> TypeName(w) ]

(***************************************************************************)
(* Builder calls                                                           *)
(***************************************************************************)
Call0(f) == [f |-> f]
Call1(f, v) == [f |-> f, arg |-> v]
OrderCall(n, asc) == [f |-> "order_by", attribute |-> n, ascending |-> asc]
SelectCall(ns) == [f |-> "select", names |-> ns]

\* outcome of a clause-building step: the builder calls it issued, and how it ended
Built(cs, x) == [calls |-> cs, raised |-> x]

\* outcome of a step of the where compilation on a node of the expression
\* tree: the builder calls it issued, how it ended, the node as the step leaves
\* it, and the names in the message when it ended in the compiler's TypeError
Outcome(cs, x, node, msg) == [calls |-> cs, raised |-> x, tree |-> node, message |-> msg]

\* variant: the scope is entered but never left
NegationScopeNoExit(negated, body) ==
    IF negated
    THEN <<Call0("negate")>> \o body
    ELSE body

\* Query._negation
NegationScope(negated, body) ==
    IF negated
    THEN <<Call0("negate")>> \o body \o <<Call0("negate")>>
    ELSE body

\* Query._build_boolean_expression: attr, func, arg and negated are read
BuildBooleanExpression(e) ==
    Outcome(<<Call1("on_attribute", Str(Casing(e.attr)))>>
                 \o NegationScope(e.negated, <<Call1(e.func, e.arg)>>),
             "none", e, None)

\* variant: every chain is issued as "and"
BuildChainOperatorAnd(o) == <<Call1("chain", Str("and"))>>

\* Query._build_chain_operator
BuildChainOperator(o) == <<Call1("chain", Str(OperatorValue(o)))>>

RECURSIVE BuildSide(_)
RECURSIVE BuildBooleanExpressionClause(_)

\* variant: the chain operator is issued after both sides
PrecedenceGroupingChainLast(clause) ==
    LET l == BuildSide(clause.left)
        afterLeft == [clause EXCEPT !.left = l.tree]
    IN
    IF l.raised # "none"
    THEN Outcome(<<Call0("open_group")>> \o l.calls, l.raised, afterLeft, l.message)
    ELSE LET r == BuildSide(clause.right)
             afterRight == [afterLeft EXCEPT !.right = r.tree]
             head == <<Call0("open_group")>> \o l.calls \o r.calls
         IN IF r.raised # "none"
            THEN Outcome(head, r.raised, afterRight, r.message)
            ELSE Outcome(head \o BuildChainOperator(clause.operator)
                               \o <<Call0("close_group")>>, "none", afterRight, None)

\* Query._precedence_grouping around the body of _build_boolean_expression_clause:
\* close_group() is issued only when the body returns
PrecedenceGrouping(clause) ==
    LET l == BuildSide(clause.left)
        afterLeft == [clause EXCEPT !.left = l.tree]
    IN
    IF l.raised # "none"
    THEN Outcome(<<Call0("open_group")>> \o l.calls, l.raised, afterLeft, l.message)
    ELSE LET r == BuildSide(clause.right)
             afterRight == [afterLeft EXCEPT !.right = r.tree]
             head == <<Call0("open_group")>> \o l.calls
                         \o BuildChainOperator(clause.operator) \o r.calls
         IN IF r.raised # "none"
            THEN Outcome(head, r.raised, afterRight, r.message)
            ELSE Outcome(head \o <<Call0("close_group")>>, "none", afterRight, None)

\* variant: a clause found inside a clause is compiled into its parent's group
BuildBooleanExpressionClauseFlat(clause) ==
    LET b == PrecedenceGrouping(clause)
        Inner(c) == c.f \notin {"open_group", "close_group"}
        body == SelectSeq(b.calls, Inner)
    IN  IF b.raised # "none"
        THEN Outcome(<<Call0("open_group")>> \o body, b.raised, b.tree, b.message)
        ELSE Outcome(<<Call0("open_group")>> \o body \o <<Call0("close_group")>>,
                      "none", b.tree, None)

\* Query._build_boolean_expression_clause
BuildBooleanExpressionClause(clause) == PrecedenceGrouping(clause)

\* variant: a Boolean attribute class found as a side is not resolved
BuildSideNoResolve(side) ==
    IF IsExpr(side) THEN BuildBooleanExpression(side)
    ELSE IF IsClause(side) THEN BuildBooleanExpressionClause(side)
    ELSE Outcome(<<>>, "TypeError", side, SideErrorMessage(side))

\* variant: the resolved side is stored in the clause in place of the class
BuildSideWritesBack(side) ==
    LET s == IF IsAttr(side) /\ side.kind = "Boolean" THEN Resolve(side).value ELSE side
    IN  IF IsExpr(s) THEN BuildBooleanExpression(s)
        ELSE IF IsClause(s) THEN BuildBooleanExpressionClause(s)
        ELSE Outcome(<<>>, "TypeError", s, SideErrorMessage(s))

\* Query._build_side on the side a clause holds: `side = side._resolve()`
\* binds the local name to the resolved expression and the clause keeps the
\* class; the TypeError names the type of the side
BuildSide(side) ==
    LET resolved == IsAttr(side) /\ side.kind = "Boolean"
        s == IF resolved THEN Resolve(side).value ELSE side
        b == IF IsExpr(s) THEN BuildBooleanExpression(s)
             ELSE IF IsClause(s) THEN BuildBooleanExpressionClause(s)
             ELSE Outcome(<<>>, "TypeError", s, SideErrorMessage(s))
    IN  IF resolved THEN [b EXCEPT !.tree = side] ELSE b

\* variant: a single expression is wrapped in a group like a clause
BuildWhereClauseGrouped(w) ==
    IF IsNone(w) THEN Outcome(<<>>, "none", w, None)
    ELSE IF IsExpr(w)
         THEN Outcome(<<Call0("open_group")>> \o BuildBooleanExpression(w).calls
                           \o <<Call0("close_group")>>, "none", w, None)
    ELSE IF IsClause(w) THEN BuildBooleanExpressionClause(w)
    ELSE Outcome(<<>>, "TypeError", w, WhereErrorMessage(w))

\* Query._build_where_clause on the value stored in Query._where
BuildWhereClause(w) ==
    IF IsNone(w) THEN Outcome(<<>>, "none", w, None)
    ELSE IF IsExpr(w) THEN BuildBooleanExpression(w)
    ELSE IF IsClause(w) THEN BuildBooleanExpressionClause(w)
    ELSE Outcome(<<>>, "TypeError", w, WhereErrorMessage(w))

\* variant: the previous filter calls are kept
ClearFiltersKeep(fs) == fs

\* builder.clear_filters()
ClearFilters(fs) == <<>>

Prior == [filters |-> filters # <<>>, orders |-> orders # <<>>, selects |-> selects # {}]

OpRec(n, a) == [name |-> n, arg |-> a]

(***************************************************************************)
(* Query.where                                                             *)
(***************************************************************************)
\* the element handed to where() as its holder sees it afterwards: an
\* expression or a clause resolves to itself, so it is the object the compile
\* steps were run on; an attribute class resolves to a new expression
AfterCompile(x) ==
    IF IsExpr(x) \/ IsClause(x) THEN BuildWhereClause(x).tree ELSE x

WhereEffect(x) ==
    LET cleared == ClearFilters(filters)
        res == Resolve(x)
        b == BuildWhereClause(res.value)
    IN  /\ prior' = Prior
        /\ IF res.raised # "none"
           THEN /\ qwhere' = qwhere
                /\ filters' = cleared
                /\ calls' = <<Call0("clear_filters")>>
                /\ raised' = res.raised
                /\ message' = None
           ELSE /\ qwhere' = b.tree
                /\ filters' = cleared \o b.calls
                /\ calls' = <<Call0("clear_filters")>> \o b.calls
                /\ raised' = b.raised
                /\ message' = b.message
        /\ ret' = IF raised' = "none" THEN SelfRef ELSE None
        /\ arg' = IF arg = x THEN AfterCompile(x) ELSE arg
        /\ UNCHANGED <<qselect, qorder, qlimit, selects, orders, kind, action,
                       result, committed, inScope, enclosing, runs, applied>>

Where(x) == op' = OpRec("where", x) /\ WhereEffect(x)

\* the caller's statement query.where(A <c> v): the comparison is evaluated
\* first, and where() runs only if it returned a value
WhereCompare(a, c, v) ==
    LET r == Compare(a, c, v)
    IN  /\ op' = OpRec("where_compare", [attribute |-> a, comparison |-> c, value |-> v])
        /\ IF r.raised # "none"
           THEN /\ calls' = <<>>
                /\ raised' = r.raised
                /\ ret' = None
                /\ prior' = Prior
                /\ message' = None
                /\ UNCHANGED <<queryVars, bulkVars, kind, action, runs, applied, arg>>
           ELSE WhereEffect(r.value)

(***************************************************************************)
(* Expressions a caller can build with the attribute operators             *)
(***************************************************************************)
Leaves ==
    { Contains(Subject, Str("invoice")),
      Negate(Contains(Subject, Str("invoice"))),
      Compare(Importance, "eq", Str("high")).value,
      InvertAttribute(IsRead) }

\* `element & A` stores the class A itself as the right side
BareAttributes == {IsRead, Subject}

RECURSIVE ClausesWith(_)

\* elements with exactly n clause nodes that `&`/`|` can hold on the left
ElementsWith(n) == IF n = 0 THEN Leaves ELSE ClausesWith(n)

\* ... and on the right
RightsWith(n) == IF n = 0 THEN Leaves \cup BareAttributes ELSE ClausesWith(n)

ClausesWith(n) ==
    UNION { { BooleanExpressionClause(l, o, r) :
                l \in ElementsWith(i), o \in Operators, r \in RightsWith(n - 1 - i) } :
            i \in 0..(n - 1) }

\* arguments of where(): any element, or a bare attribute class
WhereArguments(n) == UNION { RightsWith(k) : k \in 0..n } \cup {Body}

\* values that are no expression element and that `element & value` and where()
\* take all the same: neither checks what it is given
NonElements == { List(<<Str("m1"), Str("m2")>>), Str("invoice"), None }

\* `leaf & value`, `leaf | value`, and such a clause held as a left side
BadSided ==
    LET flat == { BooleanExpressionClause(l, o, v) :
                    l \in Leaves, o \in Operators, v \in NonElements }
    IN  flat \cup { BooleanExpressionClause(c, "AND", IsRead) : c \in flat }

CompileArguments == WhereArguments(MaxNodes) \cup NonElements \cup BadSided
RepeatArguments == WhereArguments(MaxRepeatNodes)

\* BulkMessageAction.delete and BulkMessageAction.move: the action and its extra arguments
Delete == [name |-> "delete", args |-> <<>>]
Move == [name |-> "move", args |-> <<"Archive">>]

(***************************************************************************)
(* Specification SpecCompile: one where() call on a fresh Query            *)
(***************************************************************************)
Fresh ==
    /\ qselect = None /\ qwhere = None /\ qorder = None /\ qlimit = None
    /\ selects = {} /\ filters = <<>> /\ orders = <<>>
    /\ kind = "message" /\ action = Delete
    /\ result = List(<<>>) /\ committed = FALSE /\ inScope = FALSE /\ enclosing = 0
    /\ op = OpRec("init", None) /\ calls = <<>> /\ raised = "none"
    /\ runs = 0 /\ applied = <<>> /\ ret = None
    /\ prior = [filters |-> FALSE, orders |-> FALSE, selects |-> FALSE]
    /\ message = None

InitCompile == Fresh /\ arg \in CompileArguments

WhereOnce == op.name = "init" /\ Where(arg)

NextCompile == WhereOnce

SpecCompile == InitCompile /\ [][NextCompile]_vars

(***************************************************************************)
(* Specification SpecRepeat: where() called again and again on one Query   *)
(***************************************************************************)
InitRepeat == Fresh /\ arg = None

WhereAgain == \E x \in RepeatArguments : Where(x)

NextRepeat == WhereAgain

SpecRepeat == InitRepeat /\ [][NextRepeat]_vars

(***************************************************************************)
(* Shape of a compiled trace, stated position by position                  *)
(***************************************************************************)
RECURSIVE NodeCount(_)
NodeCount(t) == IF IsClause(t) THEN 1 + NodeCount(t.left) + NodeCount(t.right) ELSE 0

\* every side is an expression, a clause, or a Boolean attribute class
RECURSIVE WellFormed(_)
WellFormed(t) ==
    IF IsClause(t) THEN WellFormed(t.left) /\ WellFormed(t.right)
    ELSE IsExpr(t) \/ (IsAttr(t) /\ t.kind = "Boolean")

RECURSIVE TraceLen(_)
TraceLen(t) ==
    IF IsClause(t) THEN 3 + TraceLen(t.left) + TraceLen(t.right)
    ELSE IF IsExpr(t) /\ t.negated THEN 4
    ELSE 2

Count(T, f) == Cardinality({ i \in DOMAIN T : T[i].f = f })

\* the calls T[from..to]
Slice(T, from, to) == SubSeq(T, from, to)

\* clause node t, compiled from position off of T, is laid out as
\* open_group, left, chain(operator), right, close_group
RECURSIVE GroupShape(_, _, _)
GroupShape(T, off, t) ==
    IF ~IsClause(t) THEN TRUE
    ELSE LET ll == TraceLen(t.left)
             rl == TraceLen(t.right)
         IN  /\ T[off] = Call0("open_group")
             /\ Slice(T, off + 1, off + ll) = BuildSide(t.left).calls
             /\ T[off + ll + 1] = Call1("chain", Str(OperatorValue(t.operator)))
             /\ Slice(T, off + ll + 2, off + ll + rl + 1) = BuildSide(t.right).calls
             /\ T[off + ll + rl + 2] = Call0("close_group")
             /\ GroupShape(T, off + 1, t.left)
             /\ GroupShape(T, off + ll + 2, t.right)

\* every leaf of t, compiled from position off of T, is laid out as
\* on_attribute, [negate,] comparator(argument) [, negate]
RECURSIVE LeafShape(_, _, _)
LeafShape(T, off, t) ==
    IF IsClause(t)
    THEN /\ LeafShape(T, off + 1, t.left)
         /\ LeafShape(T, off + TraceLen(t.left) + 2, t.right)
    ELSE IF IsExpr(t)
    THEN /\ T[off] = Call1("on_attribute", Str(Casing(t.attr)))
         /\ IF t.negated
            THEN /\ T[off + 1] = Call0("negate")
                 /\ T[off + 2] = Call1(t.func, t.arg)
                 /\ T[off + 3] = Call0("negate")
            ELSE T[off + 1] = Call1(t.func, t.arg)
    ELSE TRUE

RECURSIVE NegatedLeaves(_)
NegatedLeaves(t) ==
    IF IsClause(t) THEN NegatedLeaves(t.left) + NegatedLeaves(t.right)
    ELSE IF IsExpr(t) /\ t.negated THEN 1 ELSE 0

\* the calls of the last where() after its clear_filters()
Compiled == Tail(calls)

\* C1: where() on a clause tree issues, per clause node, exactly one
\* open_group, one chain(operator) and one close_group, laid out as
\* open_group, compiled left side, chain(operator), compiled right side,
\* close_group.
C1_GroupPerClauseNode ==
    (op.name = "where" /\ IsClause(op.arg) /\ WellFormed(op.arg)) =>
        /\ raised = "none"
        /\ calls[1] = Call0("clear_filters")
        /\ Len(Compiled) = TraceLen(op.arg)
        /\ Count(Compiled, "open_group") = NodeCount(op.arg)
        /\ Count(Compiled, "close_group") = NodeCount(op.arg)
        /\ Count(Compiled, "chain") = NodeCount(op.arg)
        /\ GroupShape(Compiled, 1, op.arg)

C1_Witness ==
    /\ op.name = "where" /\ IsClause(op.arg) /\ WellFormed(op.arg)
    /\ IsClause(op.arg.left) /\ IsExpr(op.arg.right)
    /\ op.arg.operator = "OR" /\ op.arg.left.operator = "AND"
    /\ Count(calls, "close_group") = 2

\* C2: a negated leaf compiles to on_attribute(remote name), negate(), one
\* comparator call with the leaf's argument, negate(); a leaf that is not
\* negated compiles without any negate() call.
C2_NegationBracketsComparator ==
    (op.name = "where" /\ WellFormed(op.arg)) =>
        /\ raised = "none"
        /\ Len(Compiled) = TraceLen(op.arg)
        /\ LeafShape(Compiled, 1, op.arg)
        /\ Count(Compiled, "negate") = 2 * NegatedLeaves(op.arg)

C2_Witness ==
    /\ op.name = "where" /\ IsExpr(op.arg) /\ op.arg.negated
    /\ calls = << Call0("clear_filters"), Call1("on_attribute", Str("subject")),
                  Call0("negate"), Call1("contains", Str("invoice")), Call0("negate") >>

(***************************************************************************)
(* Query.select, Query.order_by, Query.limit                               *)
(***************************************************************************)
\* reading `ascending` off the class: only instances carry it
ClassAscending(cls) == Raise("AttributeError")

\* Query._build_select_clause
BuildSelectClause(sel) ==
    IF IsNone(sel) \/ sel.tuple = <<>> THEN <<>>
    ELSE <<SelectCall([i \in DOMAIN sel.tuple |-> Casing(sel.tuple[i].name)])>>

\* Query._build_order_by_clause
BuildOrderByClause(o) ==
    IF IsStr(o) THEN Built(<<Call1("order_by", o)>>, "none")
    ELSE IF IsInstance(o) /\ IsFilterableClass(o.cls)
    THEN Built(<<OrderCall(Casing(o.cls.name), o.ascending)>>, "none")
    ELSE IF IsFilterableClass(o)
    THEN LET attribute == Asc(o)
             ascending == ClassAscending(o)
         IN  IF ascending.raised # "none"
             THEN Built(<<>>, ascending.raised)
             ELSE Built(<<OrderCall(Casing(attribute.cls.name), ascending.value)>>, "none")
    ELSE Built(<<>>, "TypeError")

\* variant: the previous order calls are kept
ClearOrderKeep(os) == os

\* builder.clear_order()
ClearOrder(os) == <<>>

\* variant: the previous selection is kept
ClearSelectsKeep(sel) == sel

\* self._query._selects = set()
ClearSelects(sel) == {}

Select(xs) ==
    LET b == BuildSelectClause(Tuple(xs))
    IN  /\ op' = OpRec("select", Tuple(xs))
        /\ prior' = Prior
        /\ message' = None
        /\ qselect' = Tuple(xs)
        /\ selects' = ClearSelects(selects) \cup UNION { { c.names[i] : i \in DOMAIN c.names } : c \in { b[j] : j \in DOMAIN b } }
        /\ calls' = b
        /\ raised' = "none"
        /\ ret' = SelfRef
        /\ UNCHANGED <<qwhere, qorder, qlimit, filters, orders, kind, action,
                       result, committed, inScope, enclosing, runs, applied, arg>>

OrderBy(o) ==
    LET cleared == ClearOrder(orders)
        b == BuildOrderByClause(o)
    IN  /\ op' = OpRec("order_by", o)
        /\ prior' = Prior
        /\ message' = None
        /\ qorder' = o
        /\ orders' = cleared \o b.calls
        /\ calls' = <<Call0("clear_order")>> \o b.calls
        /\ raised' = b.raised
        /\ ret' = IF b.raised = "none" THEN SelfRef ELSE None
        /\ UNCHANGED <<qselect, qwhere, qlimit, selects, filters, kind, action,
                       result, committed, inScope, enclosing, runs, applied, arg>>

\* variant: a limit already stored is kept
LimitKeepsFirst(n) ==
    /\ op' = OpRec("limit", IntVal(n))
    /\ prior' = Prior
    /\ message' = None
    /\ qlimit' = IF IsNone(qlimit) THEN IntVal(n) ELSE qlimit
    /\ calls' = <<>>
    /\ raised' = "none"
    /\ ret' = SelfRef
    /\ UNCHANGED <<qselect, qwhere, qorder, selects, filters, orders, kind, action,
                   result, committed, inScope, enclosing, runs, applied, arg>>

\* Query.limit
Limit(n) ==
    /\ op' = OpRec("limit", IntVal(n))
    /\ prior' = Prior
    /\ message' = None
    /\ qlimit' = IntVal(n)
    /\ calls' = <<>>
    /\ raised' = "none"
    /\ ret' = SelfRef
    /\ UNCHANGED <<qselect, qwhere, qorder, selects, filters, orders, kind, action,
                   result, committed, inScope, enclosing, runs, applied, arg>>

(***************************************************************************)
(* Specification SpecQuery: the clause-setting methods in any order        *)
(***************************************************************************)
QueryKinds == {"message", "folder", "event"}

\* the Query classes whose execute() copies what the fetch returns into a
\* list: MessageQuery, MessageFolderQuery, ContactFolderQuery (its own execute
\* in people/folder.py, the inherited one in folder.py) and FolderQuery
ListKinds == {"message", "folder", "contact_folder", "base_folder"}

\* the Query classes whose execute() reaches the container's fetch: EventQuery
\* inherits Query.execute, and office/contact.py's ContactQuery.execute calls
\* super().execute() first; people/contact.py's ContactQuery fetches
FetchingKinds == ListKinds \cup {"people_contact"}

\* every subclass of Query in the package: MessageQuery, MessageFolderQuery,
\* ContactFolderQuery, FolderQuery, EventQuery and the two ContactQuery
ConcreteKinds == QueryKinds \cup {"contact_folder", "base_folder", "contact", "people_contact"}

\* the container method execute() of the concrete class calls
FetchMethod(k) ==
    CASE k = "message" -> "get_messages"
      [] k \in {"folder", "contact_folder", "base_folder"} -> "get_folders"
      [] k = "people_contact" -> "get_contacts"

Items == {"m1", "m2"}
ResultLists == UNION { [1..n -> Items] : n \in 0..MaxResults }

\* an iterator that has been run to its end: iterating it again yields nothing
Exhausted == [iterator |-> <<>>]

\* Query.execute of the concrete class on a container whose fetch yields the
\* items `fetched`, as a list or (once) as an iterator that can be run through
\* a single time.  MessageQuery and MessageFolderQuery copy what the fetch
\* returns into a list; people/contact.py's ContactQuery iterates what the
\* fetch returns and hands back that same object.
QueryExecute(k, fetched, once) ==
    CASE k \in ListKinds -> Value(List(fetched))
      [] k = "people_contact" ->
            IF once THEN Value(Exhausted) ELSE Value(List(fetched))
      [] OTHER -> Raise("NotImplementedError")

\* what the caller reads of the builder when it is handed to a fetch
BuilderState == [selects |-> selects, filters |-> filters, orders |-> orders]

\* self._container.get_messages(limit=self._limit, query=self._query)
GetMessages(limit, query) == [f |-> "get_messages", limit |-> limit, query |-> query]

\* self._container.<fetch method>(limit=self._limit, query=self._query)
Fetch(k, limit, query) == [f |-> FetchMethod(k), limit |-> limit, query |-> query]

\* the container calls one Query.execute() of the concrete class issues
ContainerCalls(k) ==
    IF k \in FetchingKinds THEN <<Fetch(k, qlimit, BuilderState)>> ELSE <<>>

\* variant: the stored limit is consumed by the fetch
ExecuteConsumesLimit(fetched, once) ==
    LET outcome == QueryExecute(kind, fetched, once)
    IN  /\ op' = OpRec("execute", None)
        /\ prior' = Prior
        /\ message' = None
        /\ calls' = ContainerCalls(kind)
        /\ raised' = outcome.raised
        /\ ret' = outcome.value
        /\ qlimit' = IF kind \in FetchingKinds THEN None ELSE qlimit
        /\ UNCHANGED <<qselect, qwhere, qorder, selects, filters, orders,
                       bulkVars, kind, action, runs, applied, arg>>

\* execute() of the concrete Query class on a container whose fetch yields
\* `fetched`, as a list or (once) as a one-shot iterator
Execute(fetched, once) ==
    LET outcome == QueryExecute(kind, fetched, once)
    IN  /\ op' = OpRec("execute", None)
        /\ prior' = Prior
        /\ message' = None
        /\ calls' = ContainerCalls(kind)
        /\ raised' = outcome.raised
        /\ ret' = outcome.value
        /\ UNCHANGED <<queryVars, bulkVars, kind, action, runs, applied, arg>>

QueryWhereArguments == WhereArguments(0)

OrderArguments ==
    { Asc(Subject), Desc(Subject), Desc(IsRead), Subject, IsRead,
      Str("subject desc"), Body, IntVal(3) }

SelectArguments == { <<>>, <<Subject, Body>>, <<IsRead>> }

ComparedAttributes == {Body, ReceivedOn}

InitQuery == Fresh /\ arg = None

WhereStep == \E x \in QueryWhereArguments : Where(x)
WhereCompareStep ==
    \E a \in ComparedAttributes, c \in ComparisonOperators : WhereCompare(a, c, Str("x"))
SelectStep == \E xs \in SelectArguments : Select(xs)
OrderByStep == \E o \in OrderArguments : OrderBy(o)
LimitStep == \E n \in 1..MaxLimit : Limit(n)
\* list or one-shot iterator: told apart only by an execute() that hands back
\* the fetched object itself
FetchShapes == IF kind = "people_contact" THEN BOOLEAN ELSE {FALSE}

ExecuteQueryStep == \E fetched \in ResultLists, once \in FetchShapes : Execute(fetched, once)

NextQuery ==
    \/ WhereStep \/ WhereCompareStep \/ SelectStep \/ OrderByStep \/ LimitStep
    \/ ExecuteQueryStep

SpecQuery == InitQuery /\ [][NextQuery]_vars

\* what the builder of a fresh Query holds after where(x) alone
FreshFilters(x) ==
    LET res == Resolve(x)
    IN  IF res.raised # "none" THEN <<>> ELSE BuildWhereClause(res.value).calls

\* C7: after where(e1) then where(e2) the builder's filter state is that of a
\* fresh Query after where(e2) alone; clear_filters() is issued before the
\* second compilation.
C7_WhereLeavesNoResidue ==
    op.name = "where" =>
        /\ calls[1] = Call0("clear_filters")
        /\ Count(Tail(calls), "clear_filters") = 0
        /\ filters = Tail(calls)
        /\ filters = FreshFilters(op.arg)

C7_Witness ==
    /\ op.name = "where" /\ prior.filters /\ IsExpr(op.arg)
    /\ filters = << Call1("on_attribute", Str("importance")), Call1("equals", Str("high")) >>

\* C8 (as claimed): a comparison on a NonFilterable attribute raises where the
\* comparison is written, and no builder call, not even clear_filters, is
\* issued.
C8_NonFilterableComparisonRaises ==
    (op.name = "where_compare" /\ op.arg.attribute.kind = "NonFilterable") =>
        /\ raised # "none"
        /\ calls = <<>>

\* C9 (as claimed): order_by on a bare filterable attribute class issues
\* clear_order and one order_by(casing(name), ascending=True), and does not
\* raise.
C9_BareClassOrdersAscending ==
    (op.name = "order_by" /\ IsFilterableClass(op.arg)) =>
        /\ raised = "none"
        /\ calls = << Call0("clear_order"), OrderCall(Casing(op.arg.name), TRUE) >>

\* C10: order_by(A.desc()) issues clear_order() then exactly one
\* order_by(casing(A.name), ascending=False); A.asc() the same with
\* ascending=True; after a second order_by only the second ordering is held.
C10_DirectionTaggedOrder ==
    (op.name = "order_by" /\ IsInstance(op.arg)) =>
        /\ raised = "none"
        /\ calls = << Call0("clear_order"),
                      OrderCall(Casing(op.arg.cls.name), op.arg.order_by = "asc") >>
        /\ orders = << OrderCall(Casing(op.arg.cls.name), op.arg.order_by = "asc") >>

C10_Witness ==
    /\ op.name = "order_by" /\ op.arg = Desc(IsRead) /\ prior.orders
    /\ orders = << OrderCall("isRead", FALSE) >>

(***************************************************************************)
(* BulkActionContext                                                       *)
(***************************************************************************)
Actions == {Delete, Move}

ContextRef == [t |-> "BulkActionContext"]

\* variant: a raising call is noted and the iteration carries on
PerformBulkActionContinue(res, act, failAt) ==
    [applied |-> [i \in 1..Len(res) |-> [item |-> res[i], args |-> act.args]],
     raised |-> IF failAt \in 1..Len(res) THEN "ActionError" ELSE "none"]

\* BulkActionContext._perform_bulk_action; the action raises on call number failAt
PerformBulkAction(res, act, failAt) ==
    LET n == IF failAt \in 1..Len(res) THEN failAt ELSE Len(res)
    IN  [applied |-> [i \in 1..n |-> [item |-> res[i], args |-> act.args]],
         raised |-> IF failAt \in 1..Len(res) THEN "ActionError" ELSE "none"]

\* BulkActionContext.__exit__
ExitOutcome(c, res, act, failAt) ==
    IF c THEN PerformBulkAction(res, act, failAt)
    ELSE [applied |-> <<>>, raised |-> "none"]

\* BulkActionContext.execute after the query has returned
ExecuteOutcome(c, res, act, failAt) == PerformBulkAction(res, act, failAt)

\* what `for x in v` goes through, v a list or a one-shot iterator
Remaining(v) == IF IsList(v) THEN v.list ELSE v.iterator

\* len(v): an iterator has no length
LenOf(v) == IF IsList(v) THEN Value(IntVal(Len(v.list))) ELSE Raise("TypeError")

\* BulkActionContext.__len__ and __bool__
ContextLen == LenOf(result)
ContextBool ==
    IF ContextLen.raised # "none" THEN ContextLen
    ELSE Value(Bool(ContextLen.value.int > 0))

\* the bulk actions the `bulk` property of each Query class offers (of the
\* message and folder actions, delete and move); FolderQuery inherits
\* Query.bulk, a BulkAction that offers none
KindActions(k) ==
    CASE k \in {"message", "folder", "contact_folder"} -> {Delete, Move}
      [] k = "base_folder" -> {}
      [] OTHER -> {Delete}

Fetchable == IF kind \in FetchingKinds THEN ResultLists ELSE {<<>>}

\* the caller has just left a scope in which the last thing done was commit()
LeftCommittedScope ==
    /\ op.name = "exit"
    /\ op.arg.previous.name = "commit"
    /\ op.arg.previous.arg.inScope

\* how many `with context:` blocks of the context the caller is inside
Nesting == IF inScope THEN enclosing + 1 ELSE 0

\* `with context:` -- BulkActionContext.__enter__; it has no memory of an
\* earlier entry, so entering a context that is already entered runs the query
\* again and replaces the result
Enter(fetched, once) ==
    LET q == QueryExecute(kind, fetched, once)
    IN  /\ Nesting < MaxNesting
        /\ op' = OpRec("enter", [fetched |-> fetched, once |-> once,
                                 afterCommittedScope |-> LeftCommittedScope])
        /\ runs' = 1
        /\ applied' = <<>>
        /\ IF q.raised # "none"
           THEN /\ result' = result /\ UNCHANGED <<inScope, enclosing>>
                /\ raised' = q.raised /\ ret' = None
           ELSE /\ result' = q.value
                /\ inScope' = TRUE
                /\ enclosing' = IF inScope THEN enclosing + 1 ELSE enclosing
                /\ raised' = "none" /\ ret' = ContextRef
        /\ calls' = ContainerCalls(kind)
        /\ prior' = Prior
        /\ message' = None
        /\ UNCHANGED <<queryVars, kind, action, committed, arg>>

\* BulkActionContext.commit
Commit ==
    /\ op' = OpRec("commit", [inScope |-> inScope])
    /\ committed' = TRUE
    /\ runs' = 0 /\ applied' = <<>> /\ calls' = <<>>
    /\ raised' = "none" /\ ret' = None
    /\ prior' = Prior
    /\ message' = None
    /\ UNCHANGED <<queryVars, kind, action, result, inScope, enclosing, arg>>

\* what the caller did last, as far as a later step looks back at it
LastStep ==
    [name |-> op.name,
     arg |-> CASE op.name = "commit" -> op.arg
               [] op.name = "enter" -> [afterCommittedScope |-> op.arg.afterCommittedScope]
               [] OTHER -> None]

\* leaving the innermost `with` block, normally or because its body raised;
\* `previous` is what the caller did last before leaving
Exit(exception, failAt) ==
    LET o == ExitOutcome(committed, Remaining(result), action, failAt)
    IN  /\ inScope
        /\ op' = OpRec("exit", [exception |-> exception, failAt |-> failAt,
                                previous |-> LastStep])
        /\ inScope' = (enclosing > 0)
        /\ enclosing' = IF enclosing > 0 THEN enclosing - 1 ELSE 0
        /\ runs' = 0
        /\ applied' = o.applied
        /\ raised' = IF o.raised # "none" THEN o.raised
                     ELSE IF exception THEN "BodyError" ELSE "none"
        /\ ret' = None
        /\ calls' = <<>>
        /\ prior' = Prior
        /\ message' = None
        /\ UNCHANGED <<queryVars, kind, action, result, committed, arg>>

\* BulkActionContext.execute: the query, then the action on what the stored
\* result yields, then len(self)
BulkExecute(fetched, once, failAt) ==
    LET q == QueryExecute(kind, fetched, once)
        o == ExecuteOutcome(committed, Remaining(q.value), action, failAt)
        n == LenOf(q.value)
    IN  /\ op' = OpRec("execute", [fetched |-> fetched, once |-> once, failAt |-> failAt])
        /\ runs' = 1
        /\ IF q.raised # "none"
           THEN /\ result' = result /\ applied' = <<>>
                /\ raised' = q.raised /\ ret' = None
           ELSE /\ result' = q.value /\ applied' = o.applied
                /\ raised' = IF o.raised # "none" THEN o.raised ELSE n.raised
                /\ ret' = IF o.raised = "none" THEN n.value ELSE None
        /\ calls' = ContainerCalls(kind)
        /\ prior' = Prior
        /\ message' = None
        /\ UNCHANGED <<queryVars, kind, action, committed, inScope, enclosing, arg>>

(***************************************************************************)
(* Specification SpecBulk: one BulkActionContext used by a caller          *)
(***************************************************************************)
InitBulk ==
    /\ qselect = None /\ qwhere = None /\ qorder = None /\ qlimit = None
    /\ selects = {} /\ filters = <<>> /\ orders = <<>>
    /\ kind \in ConcreteKinds /\ action \in KindActions(kind)
    /\ result = List(<<>>) /\ committed = FALSE /\ inScope = FALSE /\ enclosing = 0
    /\ op = OpRec("init", None) /\ calls = <<>> /\ raised = "none"
    /\ runs = 0 /\ applied = <<>> /\ ret = None
    /\ prior = [filters |-> FALSE, orders |-> FALSE, selects |-> FALSE]
    /\ message = None
    /\ arg = None

EnterStep == \E r \in Fetchable, once \in FetchShapes : Enter(r, once)
CommitStep == Commit
ExitStep ==
    \E e \in BOOLEAN, k \in (IF committed THEN 0..Len(Remaining(result)) ELSE {0}) :
        Exit(e, k)
ExecuteStep ==
    \E r \in Fetchable, once \in FetchShapes, k \in 0..MaxResults :
        /\ LET q == QueryExecute(kind, r, once)
           IN  k <= (IF q.raised = "none" THEN Len(Remaining(q.value)) ELSE 0)
        /\ BulkExecute(r, once, k)

NextBulk == EnterStep \/ CommitStep \/ ExitStep \/ ExecuteStep

SpecBulk == InitBulk /\ [][NextBulk]_vars

\* C3 (as claimed): entering the scope runs the query once and stores its
\* results without applying the action, so that len() and truthiness of the
\* context give the number of results; leaving a scope in which commit() was
\* never called applies the action to nothing and does not run the query again.
C3_UncommittedScopeOnlyCaptures ==
    /\ op.name = "enter" => (runs = 1 /\ applied = <<>>)
    /\ (op.name = "enter" /\ raised = "none") =>
            /\ Remaining(result) = op.arg.fetched
            /\ ContextLen = Value(IntVal(Len(op.arg.fetched)))
            /\ ContextBool = Value(Bool(op.arg.fetched # <<>>))
    /\ (op.name = "exit" /\ ~committed) => (applied = <<>> /\ runs = 0)

\* C4 (as claimed): when the scope is left because its body raised, the action
\* is applied to no captured result, even if commit() had been called.
C4_NoActionOnExceptionalExit ==
    (op.name = "exit" /\ op.arg.exception) => applied = <<>>

\* C5 (as claimed): execute() on a context whose query fetches and whose
\* action raises on no result runs the query once, applies the action with the
\* stored extra arguments once to every fetched result in result order
\* whatever the committed flag is, and returns the number of results.
C5_ExecuteAppliesToAll ==
    (op.name = "execute" /\ kind \in FetchingKinds /\ op.arg.failAt = 0) =>
        /\ raised = "none"
        /\ runs = 1
        /\ Len(applied) = Len(op.arg.fetched)
        /\ \A i \in DOMAIN op.arg.fetched :
                applied[i].item = op.arg.fetched[i] /\ applied[i].args = action.args
        /\ ret = IntVal(Len(op.arg.fetched))

\* C6: when the action raises on the i-th result, it has been called on the
\* results before i and on i, on none after i, and the error reaches the
\* caller of execute() or of the scope exit.
C6_FailureAbortsIteration ==
    (op.name \in {"exit", "execute"} /\ op.arg.failAt > 0) =>
        /\ raised = "ActionError"
        /\ ret = None
        /\ Len(applied) = op.arg.failAt
        /\ \A i \in 1..op.arg.failAt : applied[i].item = Remaining(result)[i]

C6_Witness ==
    /\ op.name = "exit" /\ op.arg.failAt = 1 /\ Len(Remaining(result)) = 2
    /\ Len(applied) = 1 /\ raised = "ActionError"

(***************************************************************************)
(* The attribute and expression operators a caller applies one by one      *)
(***************************************************************************)
MaxCombine == 1      \* clause nodes in an element built with `&` and `|`

SubstringMethods == {"contains", "startswith", "endswith"}

\* A.contains(v), A.startswith(v), A.endswith(v): classmethods of
\* FilterableAttribute, inherited by every filterable attribute class;
\* on a NonFilterable class the lookup ends in NonFilterableMeta.__getattr__
Substring(a, m, v) ==
    IF a.kind = "NonFilterable" THEN Raise("AttributeError")
    ELSE Value(BooleanExpression(a.name, m, v))

\* `~x`: BooleanAttributeMeta.__invert__ on a Boolean attribute class,
\* BooleanExpression.__invert__ on an expression; nothing else defines it
Invert(x) ==
    IF IsAttr(x)
    THEN IF x.kind = "Boolean" THEN Value(InvertAttribute(x)) ELSE Raise("TypeError")
    ELSE IF IsExpr(x) THEN Value(Negate(x))
    ELSE Raise("TypeError")

\* `x & y` and `x | y` for x a filterable attribute class
\* (BaseAttributeMeta.__and__/__or__: both operands are resolved) or an
\* expression element (BaseExpressionElement.__and__/__or__: y is stored as given)
Combine(x, o, y) ==
    IF IsAttr(x)
    THEN LET l == Resolve(x)
         IN  IF l.raised # "none" THEN Raise(l.raised)
             ELSE LET r == Resolve(y)
                  IN  IF r.raised # "none" THEN Raise(r.raised)
                      ELSE Value(BooleanExpressionClause(l.value, o, r.value))
    ELSE Value(BooleanExpressionClause(x, o, y))

\* the operand of the previous step when that step was one of `names`
Previous(names) == IF op.name \in names THEN op.arg.operand ELSE None

\* the object the caller holds is the object Query._where refers to: where()
\* stores what _resolve() returns, which for an expression or a clause is the
\* element itself; `~` and negate() on an expression keep the object, a step
\* that raises keeps it too, and every other step hands back a new object
Stored ==
    CASE op.name = "where" -> IsExpr(op.arg) \/ IsClause(op.arg)
      [] op.name \in {"compare", "substring", "resolve", "invert", "negate", "combine"} ->
            op.arg.stored
      [] OTHER -> FALSE

\* Stored once a step with this outcome has run; inPlace: the step changes the
\* held object and returns it
StoredAfter(outcome, inPlace) ==
    IF outcome.raised # "none" \/ inPlace THEN Stored ELSE FALSE

\* an operator applied to the object the caller holds; the caller goes on with
\* the result when there is one, and a change made in place shows in
\* Query._where when that is the same object (the builder is not called)
AlgebraEffect(outcome, inPlace) ==
    /\ raised' = outcome.raised
    /\ ret' = outcome.value
    /\ arg' = IF outcome.raised = "none" THEN outcome.value ELSE arg
    /\ qwhere' = IF outcome.raised = "none" /\ inPlace /\ Stored THEN outcome.value ELSE qwhere
    /\ calls' = <<>>
    /\ prior' = Prior
    /\ message' = None
    /\ UNCHANGED <<qselect, qorder, qlimit, selects, filters, orders,
                   bulkVars, kind, action, runs, applied>>

CompareStep ==
    /\ IsAttr(arg)
    /\ \E c \in ComparisonOperators :
          /\ op' = OpRec("compare", [operand |-> arg, comparison |-> c,
                                     stored |-> StoredAfter(Compare(arg, c, Str("x")), FALSE)])
          /\ AlgebraEffect(Compare(arg, c, Str("x")), FALSE)

SubstringStep ==
    /\ IsAttr(arg)
    /\ \E m \in SubstringMethods :
          /\ op' = OpRec("substring", [operand |-> arg, method |-> m,
                                       stored |-> StoredAfter(Substring(arg, m, Str("x")), FALSE)])
          /\ AlgebraEffect(Substring(arg, m, Str("x")), FALSE)

ResolveStep ==
    /\ IsAttr(arg)
    /\ op' = OpRec("resolve", [operand |-> arg,
                               stored |-> StoredAfter(Resolve(arg), FALSE)])
    /\ AlgebraEffect(Resolve(arg), FALSE)

InvertStep ==
    /\ op' = OpRec("invert", [operand |-> arg, previous |-> Previous({"invert"}),
                              stored |-> StoredAfter(Invert(arg), IsExpr(arg))])
    /\ AlgebraEffect(Invert(arg), IsExpr(arg))

NegateStep ==
    /\ IsExpr(arg)
    /\ op' = OpRec("negate", [operand |-> arg, previous |-> Previous({"negate"}),
                              stored |-> StoredAfter(Value(Negate(arg)), TRUE)])
    /\ AlgebraEffect(Value(Negate(arg)), TRUE)

\* what the caller combines the held object with
OtherOperands == { IsRead, Subject, Contains(Subject, Str("invoice")) }

CombineStep ==
    \E o \in Operators, y \in OtherOperands, held \in {"left", "right"} :
        LET x == IF held = "left" THEN arg ELSE y
            z == IF held = "left" THEN y ELSE arg
            outcome == Combine(x, o, z)
        IN  /\ outcome.raised = "none" => NodeCount(outcome.value) <= MaxCombine
            /\ op' = OpRec("combine", [left |-> x, operator |-> o, right |-> z,
                                       stored |-> StoredAfter(outcome, FALSE)])
            /\ AlgebraEffect(outcome, FALSE)

WhereBuilt == Where(arg)

InitAlgebra == Fresh /\ arg \in {Subject, IsRead, Importance}

NextAlgebra ==
    \/ CompareStep \/ SubstringStep \/ ResolveStep \/ InvertStep \/ NegateStep
    \/ CombineStep \/ WhereBuilt

SpecAlgebra == InitAlgebra /\ [][NextAlgebra]_vars

(***************************************************************************)
(* Negation of attributes and expressions                                  *)
(***************************************************************************)
\* `~` has just been applied to the result of `~A`, A a Boolean attribute class
DoubleInverted ==
    /\ op.name = "invert" /\ raised = "none"
    /\ IsAttr(op.arg.previous) /\ op.arg.previous.kind = "Boolean"

\* C11 as stated: ~(~A) has the comparator, argument and negated flag of the
\* expression A resolves to (equals, True, not negated)
C11_DoubleInvertIsResolved ==
    DoubleInverted => ret = Resolve(op.arg.previous).value

\* C11: for every Boolean attribute class A, ~(~A) is an expression on A's
\* attribute whose negated flag is false, as in the expression A resolves to,
\* but whose comparator is not-equals and whose argument is False
C11_DoubleInvertIsUnequalFalse ==
    DoubleInverted =>
        /\ IsExpr(ret)
        /\ ret.attr = op.arg.previous.name
        /\ ret.func = "unequal"
        /\ ret.arg = Bool(FALSE)
        /\ ret.negated = FALSE
        /\ ret.negated = Resolve(op.arg.previous).value.negated

C11_Witness == DoubleInverted /\ op.arg.previous = IsRead /\ ret.func = "unequal"

\* negate() has just been applied to an expression
Negated == op.name = "negate" /\ raised = "none"

\* negate() has just been applied to the result of a negate()
NegatedTwice == Negated /\ IsExpr(op.arg.previous)

\* C12: on an expression whose comparator is one of the six comparison
\* comparators negate() swaps equals with not-equals, less with
\* greater-or-equal and greater with less-or-equal, leaves the negated flag and
\* the argument as they were, and a second negate() restores the original
\* comparator and negated flag
C12_NegateSwapsOpposites ==
    (Negated /\ op.arg.operand.func \in logical_opposites) =>
        /\ <<op.arg.operand.func, ret.func>> \in
               { <<"equals", "unequal">>, <<"unequal", "equals">>,
                 <<"less", "greater_equal">>, <<"greater_equal", "less">>,
                 <<"greater", "less_equal">>, <<"less_equal", "greater">> }
        /\ ret.negated = op.arg.operand.negated
        /\ ret.arg = op.arg.operand.arg
        /\ ret.attr = op.arg.operand.attr
        /\ IsExpr(op.arg.previous) =>
               /\ ret.func = op.arg.previous.func
               /\ ret.negated = op.arg.previous.negated

C12_Witness ==
    /\ NegatedTwice
    /\ op.arg.previous.func = "less"
    /\ op.arg.operand.func = "greater_equal"
    /\ ret.func = "less"

\* the expression a Boolean attribute class resolves to
ResolvedBoolean(e) ==
    \E a \in {IsRead, HasAttachments} : e = Resolve(a).value

\* C13 as stated: on a contains, startswith or endswith expression and on the
\* equals-True expression of a Boolean attribute, negate() keeps the comparator
\* and toggles the negated flag
C13_NegateTogglesFlag ==
    (Negated /\ (op.arg.operand.func \in SubstringMethods \/ ResolvedBoolean(op.arg.operand))) =>
        /\ ret.func = op.arg.operand.func
        /\ ret.negated = ~op.arg.operand.negated

\* C13: on a contains, startswith or endswith expression negate() keeps the
\* comparator and toggles the negated flag, and a second negate() returns the
\* flag to its original value; on the equals-True expression a Boolean attribute
\* resolves to, negate() makes the comparator not-equals and leaves the flag
C13_NegateTogglesSubstringFlag ==
    /\ (Negated /\ op.arg.operand.func \in SubstringMethods) =>
          /\ ret.func = op.arg.operand.func
          /\ ret.arg = op.arg.operand.arg
          /\ ret.negated = ~op.arg.operand.negated
          /\ IsExpr(op.arg.previous) => ret.negated = op.arg.previous.negated
    /\ (Negated /\ ResolvedBoolean(op.arg.operand)) =>
          /\ ret.func = "unequal"
          /\ ret.arg = Bool(TRUE)
          /\ ret.negated = op.arg.operand.negated

C13_Witness ==
    /\ NegatedTwice
    /\ op.arg.previous.func = "startswith"
    /\ op.arg.operand.negated
    /\ ~ret.negated

C13_WitnessBoolean == Negated /\ ResolvedBoolean(op.arg.operand) /\ ret.func = "unequal"

(***************************************************************************)
(* Combination with `&` and `|`, and the substring comparators             *)
(***************************************************************************)
\* `&` or `|` has just been applied
Combined == op.name = "combine"

\* C14: every `&` or `|` over attribute classes, expressions and clauses that
\* returns yields a clause whose left and right children are each an
\* expression or a clause, never an attribute class
C14_ClauseChildrenResolved ==
    (Combined /\ raised = "none") =>
        /\ IsClause(ret)
        /\ IsExpr(ret.left) \/ IsClause(ret.left)
        /\ IsExpr(ret.right) \/ IsClause(ret.right)

\* a Plain or Enumerative attribute class used without a comparator
BareUnresolvable(x) == IsAttr(x) /\ x.kind \in {"Plain", "Enumerative"}

\* C15: `&` or `|` with a bare Plain or Enumerative attribute class as either
\* operand raises when the operator is applied, and no clause holding that
\* class is constructed
C15_BareOperandRaisesAtOperator ==
    (Combined /\ (BareUnresolvable(op.arg.left) \/ BareUnresolvable(op.arg.right))) =>
        /\ raised # "none"
        /\ ~IsClause(ret)

\* C16: contains, startswith and endswith on a Boolean or Enumerative attribute
\* class raise a type error and return no expression
C16_SubstringOnlyOnPlain ==
    (op.name = "substring" /\ op.arg.operand.kind \in {"Boolean", "Enumerative"}) =>
        /\ raised = "TypeError"
        /\ IsNone(ret)

(***************************************************************************)
(* The TypeError of Query._build_side                                      *)
(***************************************************************************)
\* a side _build_side can compile: an expression, a Boolean attribute class, or
\* a clause all of whose sides can be compiled
CompilableSide(side) == WellFormed(side)

RECURSIVE RaisingSide(_)

\* the first side of clause c, sides being visited left first and a clause's
\* own sides before its sibling, that is neither an expression, nor a clause,
\* nor a Boolean attribute class
RaisingSide(c) ==
    LET next == IF ~CompilableSide(c.left) THEN c.left ELSE c.right
    IN  IF IsClause(next) THEN RaisingSide(next) ELSE next

\* where(x) was called with a value that is not an expression element, or
\* with an attribute class that does not resolve to one
WhereBadValue ==
    /\ op.name = "where"
    /\ ~IsExpr(op.arg) /\ ~IsClause(op.arg)
    /\ ~(IsAttr(op.arg) /\ op.arg.kind = "Boolean")

\* where(x) was called with a clause one of whose sides cannot be compiled
WhereBadSide ==
    /\ op.name = "where"
    /\ IsClause(op.arg)
    /\ ~WellFormed(op.arg)

\* C17: where() on a value that is neither an expression nor a clause after
\* resolution, and where() on a clause one of whose sides is such a value,
\* raise a TypeError whose message names the type of the offending value and
\* the accepted types BooleanExpression and BooleanExpressionClause
C17_TypeErrorNamesAcceptedTypes ==
    /\ WhereBadValue =>
           /\ raised = "TypeError"
           /\ message # None
           /\ message.offending = TypeName(op.arg)
           /\ message.accepted = <<"BooleanExpression", "BooleanExpressionClause">>
    /\ WhereBadSide =>
           /\ raised = "TypeError"
           /\ message # None
           /\ message.offending = TypeName(RaisingSide(op.arg))
           /\ message.accepted = <<"BooleanExpression", "BooleanExpressionClause">>

\* what where() does on a clause with a side that cannot be compiled: the
\* TypeError names the type of that side, and names the metaclass `type` where
\* the accepted types are meant
C17_MessageNamesType ==
    WhereBadSide =>
        /\ raised = "TypeError"
        /\ message = [owner |-> "type", accepted |-> <<"type", "type">>,
                      offending |-> TypeName(RaisingSide(op.arg))]

\* ... and on a value that is not an expression element: the lookup or the
\* call of _resolve fails before any type is tested, and no message of the
\* compiler is produced
C17_BadValueFailsInResolve ==
    WhereBadValue =>
        /\ raised \in {"AttributeError", "ValueError"}
        /\ message = None
        /\ calls = <<Call0("clear_filters")>>

\* a list as the right side of a clause: the TypeError names `list`
C17_ListSide ==
    /\ WhereBadSide
    /\ IsList(op.arg.right)
    /\ raised = "TypeError"
    /\ message.offending = "list"
    /\ message.accepted = <<"type", "type">>

(***************************************************************************)
(* Query.select                                                            *)
(***************************************************************************)
\* the remote names of the attributes given to the select() just made
SelectedNames == [i \in DOMAIN op.arg.tuple |-> Casing(op.arg.tuple[i].name)]

\* C18 as stated: select(a1..an) empties the builder's selection and then
\* issues exactly one builder select call, whose arguments are casing(ai.name)
\* in the order given; the builder's selection afterwards holds the names of
\* this call only
C18_SelectIssuesOneCall ==
    op.name = "select" =>
        /\ calls = <<[f |-> "select", names |-> SelectedNames]>>
        /\ selects = { SelectedNames[i] : i \in DOMAIN SelectedNames }
        /\ qselect = op.arg
        /\ raised = "none"

\* C18: select(a1..an) empties the builder's selection; with n >= 1 it then
\* issues exactly one builder select call, whose arguments are casing(ai.name)
\* in the order given, and with n = 0 it issues no builder call at all; either
\* way the builder's selection afterwards holds the names of this call only,
\* whatever was selected before
C18_SelectReplacesSelection ==
    op.name = "select" =>
        /\ calls = IF op.arg.tuple = <<>> THEN <<>>
                   ELSE <<[f |-> "select", names |-> SelectedNames]>>
        /\ selects = { SelectedNames[i] : i \in DOMAIN SelectedNames }
        /\ qselect = op.arg
        /\ raised = "none"

C18_Witness ==
    /\ op.name = "select"
    /\ prior.selects
    /\ op.arg.tuple = <<IsRead>>
    /\ Len(calls) = 1
    /\ selects = {"isRead"}

(***************************************************************************)
(* Query.limit                                                             *)
(***************************************************************************)
\* C19: limit(n) stores n and nothing else: it issues no builder call and
\* leaves the select, where and order state as they were; the stored limit
\* changes only in limit() and is then the value just given, and execute()
\* hands the stored limit to the container's fetch
C19_LimitOnlyStores ==
    /\ [](op.name = "limit" => (calls = <<>> /\ qlimit = op.arg /\ raised = "none"))
    /\ []((op.name = "execute" /\ raised = "none") =>
              (Len(calls) = 1 /\ calls[1].f = "get_messages" /\ calls[1].limit = qlimit))
    /\ [][op'.name = "limit" =>
              UNCHANGED <<qselect, qwhere, qorder, selects, filters, orders>>]_vars
    /\ [][qlimit' # qlimit => op'.name = "limit"]_vars

C19_Witness ==
    /\ op.name = "execute"
    /\ qlimit = IntVal(MaxLimit)
    /\ calls = <<GetMessages(IntVal(MaxLimit), BuilderState)>>
    /\ filters # <<>> /\ orders # <<>> /\ selects # {}

(***************************************************************************)
(* A leaf combined with a bare Boolean attribute                           *)
(***************************************************************************)
\* where() has just been given `leaf & B`: a leaf expression on the left, a
\* Boolean attribute class B on the right
WhereLeafAndBoolean ==
    /\ op.name = "where"
    /\ IsClause(op.arg)
    /\ op.arg.operator = "AND"
    /\ IsExpr(op.arg.left)
    /\ IsAttr(op.arg.right) /\ op.arg.right.kind = "Boolean"

\* C20 as stated: a clause `leaf & B` with B a bare Boolean attribute compiles
\* to exactly open_group, on_attribute(left attribute), left comparator(v),
\* chain(and), on_attribute(casing(B.name)), equals(True), close_group
C20_LeafAndBooleanSevenCalls ==
    WhereLeafAndBoolean =>
        /\ raised = "none"
        /\ filters = << [f |-> "open_group"],
                        [f |-> "on_attribute", arg |-> Str(Casing(op.arg.left.attr))],
                        [f |-> op.arg.left.func, arg |-> op.arg.left.arg],
                        [f |-> "chain", arg |-> Str("and")],
                        [f |-> "on_attribute", arg |-> Str(Casing(op.arg.right.name))],
                        [f |-> "equals", arg |-> Bool(TRUE)],
                        [f |-> "close_group"] >>
        /\ calls = <<[f |-> "clear_filters"]>> \o filters

\* the calls that bracket the comparator of a leaf: none, or negate() on
\* either side of it when the leaf's negated flag is set
LeafBracket(e) == IF e.negated THEN <<[f |-> "negate"]>> ELSE <<>>

\* C20: a clause `leaf & B` with B a bare Boolean attribute compiles to exactly
\* open_group, on_attribute(left attribute), left comparator(v), chain(and),
\* on_attribute(casing(B.name)), equals(True), close_group when the leaf's
\* negated flag is not set, and to the same calls with negate() right before
\* and right after the left comparator when it is set
C20_LeafAndBooleanCompiles ==
    WhereLeafAndBoolean =>
        /\ raised = "none"
        /\ filters = << [f |-> "open_group"],
                        [f |-> "on_attribute", arg |-> Str(Casing(op.arg.left.attr))] >>
                     \o LeafBracket(op.arg.left)
                     \o << [f |-> op.arg.left.func, arg |-> op.arg.left.arg] >>
                     \o LeafBracket(op.arg.left)
                     \o << [f |-> "chain", arg |-> Str("and")],
                           [f |-> "on_attribute", arg |-> Str(Casing(op.arg.right.name))],
                           [f |-> "equals", arg |-> Bool(TRUE)],
                           [f |-> "close_group"] >>
        /\ calls = <<[f |-> "clear_filters"]>> \o filters

\* `~Subject.contains(v) & IsRead` was compiled: nine calls
C20_NegatedLeafWitness ==
    /\ WhereLeafAndBoolean
    /\ op.arg.left.negated
    /\ Len(filters) = 9
    /\ filters[3] = [f |-> "negate"] /\ filters[5] = [f |-> "negate"]

C20_Witness ==
    /\ WhereLeafAndBoolean
    /\ ~op.arg.left.negated
    /\ op.arg.left = BooleanExpression("subject", "contains", Str("x"))
    /\ op.arg.right = IsRead
    /\ Len(filters) = 7
    /\ filters[5] = [f |-> "on_attribute", arg |-> Str("isRead")]

(***************************************************************************)
(* where() on a single leaf                                                *)
(***************************************************************************)
\* where() has just been given a single expression
WhereLeaf == op.name = "where" /\ IsExpr(op.arg)

\* where() has just been given ~B, B a Boolean attribute class
WhereInvertedBoolean ==
    /\ WhereLeaf
    /\ \E b \in {IsRead, HasAttachments} : op.arg = InvertAttribute(b)

\* C21: where(~B) for a Boolean attribute B compiles to exactly clear_filters,
\* on_attribute(casing(B.name)), equals(False), without negate() and without
\* open_group/close_group; where() of any single leaf issues no group call
C21_InvertedBooleanCompilesFlat ==
    /\ WhereInvertedBoolean =>
          /\ raised = "none"
          /\ calls = << [f |-> "clear_filters"],
                        [f |-> "on_attribute", arg |-> Str(Casing(op.arg.attr))],
                        [f |-> "equals", arg |-> Bool(FALSE)] >>
    /\ WhereLeaf =>
          \A i \in DOMAIN calls : calls[i].f \notin {"open_group", "close_group"}

C21_Witness ==
    /\ WhereInvertedBoolean
    /\ op.arg.attr = "is_read"
    /\ Len(calls) = 3
    /\ calls[2] = [f |-> "on_attribute", arg |-> Str("isRead")]

(***************************************************************************)
(* Specification SpecShared: a two-level clause whose leaves the caller    *)
(* still holds, negated and compiled in any order                          *)
(***************************************************************************)
\* B1 & ~B2 and B1 | ~B2 on Boolean attribute classes
InnerClauses ==
    { Combine(HasAttachments, o, Invert(b).value).value :
          o \in Operators, b \in {IsDraft, IsRead} }

\* (A <c> v) & inner and (A <c> v) | inner
SharedArguments ==
    { Combine(l, o, inner).value :
          l \in { Compare(Importance, "eq", Str("high")).value,
                  Substring(Subject, "contains", Str("invoice")).value },
          o \in Operators, inner \in InnerClauses }

\* where the caller's expressions sit in the clause
ChildPaths == { <<"left">>, <<"right", "left">>, <<"right", "right">> }

RECURSIVE ChildAt(_, _)
\* c.left, c.right.left, ...
ChildAt(c, path) ==
    IF path = <<>> THEN c ELSE ChildAt(c[Head(path)], Tail(path))

RECURSIVE WithChildAt(_, _, _)
\* the clause c as seen once the object at `path` holds the value v
WithChildAt(c, path, v) ==
    IF path = <<>> THEN v
    ELSE [c EXCEPT ![Head(path)] = WithChildAt(c[Head(path)], Tail(path), v)]

\* `~e` evaluated by the caller on an expression e that the held clause has as
\* a child: e is negated in place and returned, and the clause refers to e;
\* Query._where, once set by where(clause), is that same clause object
InvertChild(path) ==
    LET e == ChildAt(arg, path)
        outcome == Invert(e)
    IN  /\ op' = OpRec("invert_child", [operand |-> e, holder |-> arg, path |-> path])
        /\ raised' = outcome.raised
        /\ ret' = outcome.value
        /\ arg' = WithChildAt(arg, path, outcome.value)
        /\ qwhere' = IF IsNone(qwhere) THEN qwhere ELSE arg'
        /\ calls' = <<>>
        /\ prior' = Prior
        /\ message' = None
        /\ UNCHANGED <<qselect, qorder, qlimit, selects, filters, orders,
                       bulkVars, kind, action, runs, applied>>

InvertChildStep == \E path \in ChildPaths : InvertChild(path)
WhereHeld == Where(arg)

InitShared == Fresh /\ arg \in SharedArguments

NextShared == InvertChildStep \/ WhereHeld

SpecShared == InitShared /\ [][NextShared]_vars


(***************************************************************************)
(* (E == v) | (B1 & ~B2)                                                   *)
(***************************************************************************)
\* where() has just been given (E == v) | (B1 & ~B2) as the operators build it
WhereEnumOrBooleans ==
    /\ op.name = "where"
    /\ op.arg \in { Combine(Compare(Importance, "eq", Str("high")).value, "OR",
                            Combine(HasAttachments, "AND", Invert(b).value).value).value :
                        b \in {IsDraft, IsRead} }

\* the calls claimed and issued for everything but the leaf of ~B2
EnumOrBooleansHead ==
    << [f |-> "open_group"],
       [f |-> "on_attribute", arg |-> Str("importance")],
       [f |-> "equals", arg |-> Str("high")],
       [f |-> "chain", arg |-> Str("or")],
       [f |-> "open_group"],
       [f |-> "on_attribute", arg |-> Str("hasAttachments")],
       [f |-> "equals", arg |-> Bool(TRUE)],
       [f |-> "chain", arg |-> Str("and")],
       [f |-> "on_attribute", arg |-> Str(Casing(op.arg.right.right.attr))] >>

\* C22 as stated: one outer group holding leaf, chain(or) and an inner group
\* holding leaf, chain(and) and the leaf of ~B2 inside a negate()/negate() scope
C22_InvertedLeafNegateScoped ==
    WhereEnumOrBooleans =>
        /\ raised = "none"
        /\ Len(filters) = 14
        /\ SubSeq(filters, 1, 9) = EnumOrBooleansHead
        /\ filters[10] = [f |-> "negate"]
        /\ filters[12] = [f |-> "negate"]
        /\ SubSeq(filters, 13, 14) = << [f |-> "close_group"], [f |-> "close_group"] >>

\* C22: compiling (E == v) | (B1 & ~B2) issues one outer group holding leaf,
\* chain(or) and an inner group holding leaf, chain(and) and the leaf of ~B2,
\* which is on_attribute(B2), equals(False) with no negate() call around it
C22_InvertedLeafEqualsFalse ==
    WhereEnumOrBooleans =>
        /\ raised = "none"
        /\ filters = EnumOrBooleansHead
                       \o << [f |-> "equals", arg |-> Bool(FALSE)],
                             [f |-> "close_group"], [f |-> "close_group"] >>
        /\ \A i \in DOMAIN filters : filters[i].f # "negate"

C22_Witness ==
    /\ WhereEnumOrBooleans
    /\ op.arg.right.right.attr = "is_draft"
    /\ Len(filters) = 12
    /\ filters[9] = [f |-> "on_attribute", arg |-> Str("isDraft")]


(***************************************************************************)
(* Specification SpecFetch: execute() on each concrete Query class         *)
(***************************************************************************)
FetchWhereArguments == { IsRead, Contains(Subject, Str("invoice")) }
FetchOrderArguments == { Desc(Subject) }

InitFetch ==
    /\ qselect = None /\ qwhere = None /\ qorder = None /\ qlimit = None
    /\ selects = {} /\ filters = <<>> /\ orders = <<>>
    /\ kind \in ConcreteKinds /\ action = Delete
    /\ result = List(<<>>) /\ committed = FALSE /\ inScope = FALSE /\ enclosing = 0
    /\ op = OpRec("init", None) /\ calls = <<>> /\ raised = "none"
    /\ runs = 0 /\ applied = <<>> /\ ret = None
    /\ prior = [filters |-> FALSE, orders |-> FALSE, selects |-> FALSE]
    /\ message = None
    /\ arg = None

FetchWhereStep == \E x \in FetchWhereArguments : Where(x)
FetchOrderByStep == \E o \in FetchOrderArguments : OrderBy(o)

NextFetch ==
    \/ SelectStep \/ FetchWhereStep \/ FetchOrderByStep \/ LimitStep
    \/ ExecuteQueryStep

SpecFetch == InitFetch /\ [][NextFetch]_vars

\* execute() has just been called on the Query
Executed == op.name = "execute"

\* C23: on every concrete Query class execute() calls the container's fetch
\* once, with the builder and the stored limit, and returns what was fetched;
\* it never ends in NotImplementedError
C23_EveryKindFetches ==
    Executed =>
        /\ raised = "none"
        /\ raised # "NotImplementedError"
        /\ Len(calls) = 1
        /\ calls[1].limit = qlimit
        /\ calls[1].query = BuilderState
        /\ DOMAIN ret = {"list"}


\* C28: execute() on a message query or on a query of folders (of message
\* folders, of contact folders, or the plain FolderQuery) changes neither the builder's
\* select, filter and order state nor the Query's stored select, where, order
\* and limit; a limit(m) between two execute() calls changes only the limit,
\* and the second execute() fetches with the same builder state and limit m
C28_ExecuteLeavesQueryReusable ==
    /\ [][(op'.name = "execute" /\ kind \in ListKinds) =>
              UNCHANGED <<qselect, qwhere, qorder, qlimit, selects, filters, orders>>]_vars
    /\ []((Executed /\ kind \in ListKinds) =>
              /\ raised = "none"
              /\ calls = <<[f |-> IF kind = "message" THEN "get_messages" ELSE "get_folders",
                            limit |-> qlimit, query |-> BuilderState]>>)
    /\ [][(Executed /\ op'.name = "limit") =>
              (UNCHANGED <<selects, filters, orders>> /\ qlimit' = op'.arg)]_vars
    /\ [][(op.name = "limit" /\ op'.name = "execute" /\ kind \in ListKinds) =>
              (calls'[1].limit = op.arg /\ calls'[1].query = BuilderState)]_vars

C28_Witness ==
    /\ Executed
    /\ kind = "folder"
    /\ qlimit = IntVal(MaxLimit)
    /\ calls = <<Fetch("folder", IntVal(MaxLimit), BuilderState)>>
    /\ selects # {} /\ filters # <<>> /\ orders # <<>>
    /\ qwhere # None


(***************************************************************************)
(* The expression tree across where()                                      *)
(***************************************************************************)
\* C24: where() and the compile steps it runs leave the expression tree as it
\* was: whether where(t) returned or raised, every node of t has the attribute
\* name, comparator, argument, negated flag, operator and children it had.
\* `arg` is the tree as its holder sees it once the compile steps have run on
\* it, and `qwhere` the same object as the Query holds it; op.arg is the tree
\* as it was handed over.
C24_WhereLeavesTreeUnchanged ==
    op.name = "where" =>
        /\ arg = op.arg
        /\ (IsExpr(op.arg) \/ IsClause(op.arg)) => qwhere = op.arg

C24_Witness ==
    /\ op.name = "where"
    /\ raised = "TypeError"
    /\ arg = op.arg
    /\ IsClause(arg) /\ IsClause(arg.left)
    /\ arg.left.right = IsRead
    /\ arg.right = Subject

C24_WitnessReturned ==
    /\ op.name = "where"
    /\ raised = "none"
    /\ arg = op.arg
    /\ IsClause(arg) /\ arg.right = IsRead


\* C25: `~e` on an expression e leaves e's comparator and negated flag as they
\* were, so a clause that holds e as a child compiles to the same calls before
\* and after `~e` is evaluated
C25_InvertLeavesOperandUnchanged ==
    op.name = "invert_child" =>
        /\ ChildAt(arg, op.arg.path).func = op.arg.operand.func
        /\ ChildAt(arg, op.arg.path).negated = op.arg.operand.negated
        /\ BuildWhereClause(arg).calls = BuildWhereClause(op.arg.holder).calls


(***************************************************************************)
(* Group scopes                                                            *)
(***************************************************************************)
\* C26: the grouping scope is always closed: when compiling a side of a clause
\* raises, close_group() has still been issued for every open_group() issued
C26_GroupsClosedOnError ==
    (op.name = "where" /\ raised # "none") =>
        Count(calls, "close_group") = Count(calls, "open_group")

\* number of groups open after the first i calls of T
OpenGroups(T, i) ==
    Count(SubSeq(T, 1, i), "open_group") - Count(SubSeq(T, 1, i), "close_group")

\* number of clause levels of a tree
RECURSIVE Depth(_)
Depth(t) ==
    IF IsClause(t)
    THEN 1 + (IF Depth(t.left) >= Depth(t.right) THEN Depth(t.left) ELSE Depth(t.right))
    ELSE 0

\* C27: in a where() compilation that succeeds, no prefix of the issued calls
\* has more close_group than open_group calls, the two counts are equal at the
\* end, and the deepest nesting of open groups is the depth of the clause tree
C27_GroupsNestLikeTheTree ==
    (op.name = "where" /\ raised = "none") =>
        /\ \A i \in 0..Len(calls) : OpenGroups(calls, i) >= 0
        /\ OpenGroups(calls, Len(calls)) = 0
        /\ \A i \in 0..Len(calls) : OpenGroups(calls, i) <= Depth(op.arg)
        /\ \E i \in 0..Len(calls) : OpenGroups(calls, i) = Depth(op.arg)

C27_Witness ==
    /\ op.name = "where" /\ raised = "none"
    /\ IsClause(op.arg) /\ IsClause(op.arg.right)
    /\ Depth(op.arg) = 2
    /\ \E i \in 0..Len(calls) : OpenGroups(calls, i) = 2
    /\ Count(calls, "open_group") = 2


(***************************************************************************)
(* A BulkActionContext entered more than once                              *)
(***************************************************************************)
\* the scope just left was entered right after a committed scope was left, and
\* was itself left with nothing done in between
LeftUntouchedScope ==
    /\ op.name = "exit"
    /\ op.arg.previous.name = "enter"
    /\ op.arg.previous.arg.afterCommittedScope

\* C29: a commit counts only for the scope in which commit() was called: when
\* a context is entered, committed and left, then entered again and left without
\* commit(), the action is applied to none of the results of the second entry
C29_CommitEndsWithItsScope ==
    LeftUntouchedScope => applied = <<>>


(***************************************************************************)
(* The stored where expression and the builder's filter                    *)
(***************************************************************************)
\* C30: after any sequence of where() calls, raising ones included, the
\* builder's filter is the compilation of the expression stored in the Query,
\* and a where() call that raises leaves the stored expression and the
\* builder's filter as they were
C30_FilterMatchesStoredWhere ==
    /\ [](filters = BuildWhereClause(qwhere).calls)
    /\ [][(op'.name = "where" /\ raised' # "none") =>
              (qwhere' = qwhere /\ filters' = filters)]_vars

====
